---- MODULE Spec2Model ----
(***************************************************************************)
(* Inventory Store (src/inventory-service/main.py) and the natural-language *)
(* front end (src/mcp-server/main.py) as one state machine.                  *)
(*                                                                           *)
(* Strings that the code transforms (item names, which go through            *)
(* str.lower()) are sequences of ASCII codes; strings that the code only     *)
(* compares (the operation kind) are TLA+ strings.                           *)
(***************************************************************************)
EXTENDS Integers, Sequences, FiniteSets, TLC

VARIABLES
    inventory,  \* the module-level dict of the Inventory Store
    calls,      \* HTTP requests received by the Inventory Store, in arrival order
    loop,       \* the call whose handler body holds the store's event loop, 0 if none
    procs,      \* POST /process_query invocations of the front end
    apiKey      \* whether GEMINI_API_KEY is non-empty (fixed at import time)

vars == <<inventory, calls, loop, procs, apiKey>>

(***************************************************************************)
(* Bounds of the model.                                                      *)
(***************************************************************************)
MaxCalls == 3   \* requests that clients send directly to the Inventory Store
MaxProcs == 2   \* invocations of POST /process_query

(***************************************************************************)
(* Item names as ASCII code sequences.                                       *)
(***************************************************************************)
tshirts  == <<116, 115, 104, 105, 114, 116, 115>>   \* "tshirts"
pants    == <<112, 97, 110, 116, 115>>              \* "pants"
PantsCap == <<80, 97, 110, 116, 115>>               \* "Pants"
shoes    == <<115, 104, 111, 101, 115>>             \* "shoes"
EmptyStr == <<>>                                    \* ""

\* Faulty variant: the name is compared as given.
LowerIdentity(s) == s

\* str.lower() on ASCII text: A..Z (65..90) move to a..z, the rest is kept.
Lower(s) == [i \in 1..Len(s) |-> IF s[i] >= 65 /\ s[i] <= 90 THEN s[i] + 32 ELSE s[i]]

\* inventory: Dict[str, int] = {"tshirts": 20, "pants": 15}
SeedInventory == (tshirts :> 20) @@ (pants :> 15)

\* d[k] = v on a Python dict: replaces the value, or adds the key.
DictSet(d, k, v) == [x \in (DOMAIN d) \cup {k} |-> IF x = k THEN v ELSE d[x]]

\* d.get(k, 0)
DictGet0(d, k) == IF k \in DOMAIN d THEN d[k] ELSE 0

(***************************************************************************)
(* JSON values of the two request fields.  t is the JSON type.               *)
(***************************************************************************)
NullItem   == [t |-> "null", v |-> EmptyStr]
StrItem(s) == [t |-> "str", v |-> s]
NullChange == [t |-> "null", v |-> 0]
IntChange(n) == [t |-> "int", v |-> n]
ArrChange  == [t |-> "arr", v |-> 0]      \* a JSON array: no integer

Deltas == {-16, 5}

ClientItems   == {StrItem(tshirts), StrItem(PantsCap), StrItem(shoes)}
ClientChanges == {IntChange(n) : n \in Deltas} \cup {ArrChange}

NoBody == <<>>
NoStamp == [accepted |-> 0, refused |-> 0]

\* A request as it arrives at the store: nothing of the handler has run.
NewCall(method, item, change, origin) ==
    [method |-> method, item |-> item, change |-> change, origin |-> origin,
     pc |-> "pending", item_name |-> EmptyStr, new_stock |-> 0,
     status |-> 0, detail |-> "none", body |-> NoBody, seen |-> NoStamp]

CallIds == DOMAIN calls
DoneCalls == {c \in CallIds : calls[c].pc = "done"}

DonePosts == {c \in DoneCalls : calls[c].method = "POST"}

\* What the store has answered to updates so far: how many it accepted and
\* how many it refused.
Stamp == [accepted |-> Cardinality({c \in DonePosts : calls[c].status = 200}),
          refused  |-> Cardinality({c \in DonePosts : calls[c].status # 200})]

\* The response of call c.  A read is stamped with what preceded it.
Respond(c, st, det, bod) ==
    [calls EXCEPT ![c].pc = "done", ![c].status = st, ![c].detail = det,
                  ![c].body = bod,
                  ![c].seen = IF calls[c].method = "GET" THEN Stamp ELSE NoStamp]

\* InventoryUpdateRequest: item: str, change: int, both required.
ValidUpdateRequest(r) == r.item.t = "str" /\ r.change.t = "int"

\* Faulty variant: the delta is stored as the new count.
NewStockAssign(current, change_amount) == change_amount
\* new_stock = inventory[item_name] + change_amount
NewStock(current, change_amount) == current + change_amount

\* Faulty variant: the negative-stock check is missing.
RejectsNothing(new_stock) == FALSE
\* if new_stock < 0: raise HTTPException(400)
Rejects(new_stock) == new_stock < 0

\* Faulty variant: the handler body suspends between its check and its write,
\* so another request may start meanwhile.
CanStartAwaiting(c) == calls[c].pc = "pending"
\* Both handlers are `async def` bodies without an await: once the event loop
\* runs one, it runs to its return before any other request is looked at.
CanStart(c) == calls[c].pc = "pending" /\ loop = 0

Init ==
    /\ inventory = SeedInventory
    /\ calls = <<>>
    /\ loop = 0
    /\ procs = <<>>
    /\ apiKey \in BOOLEAN

(***************************************************************************)
(* Clients of the Inventory Store.                                           *)
(***************************************************************************)
ClientGet ==
    /\ Len(calls) < MaxCalls
    /\ calls' = Append(calls, NewCall("GET", NullItem, NullChange, 0))
    /\ UNCHANGED <<inventory, loop, procs, apiKey>>

ClientPost ==
    /\ Len(calls) < MaxCalls
    /\ \E item \in ClientItems, change \in ClientChanges :
          calls' = Append(calls, NewCall("POST", item, change, 0))
    /\ UNCHANGED <<inventory, loop, procs, apiKey>>

(***************************************************************************)
(* GET /inventory                                                            *)
(***************************************************************************)
\* Faulty variant: the read rebinds the mapping to its seed values.
get_inventory_resetting(c) ==
    /\ CanStart(c)
    /\ calls[c].method = "GET"
    /\ calls' = Respond(c, 200, "ok", inventory)
    /\ inventory' = SeedInventory
    /\ UNCHANGED <<loop, procs, apiKey>>

get_inventory(c) ==
    /\ CanStart(c)
    /\ calls[c].method = "GET"
    /\ calls' = Respond(c, 200, "ok", inventory)
    /\ UNCHANGED <<inventory, loop, procs, apiKey>>

(***************************************************************************)
(* POST /inventory, lines 78-94: validation and the read of the count.       *)
(***************************************************************************)
update_inventory_check(c) ==
    /\ CanStart(c)
    /\ calls[c].method = "POST"
    /\ LET r == calls[c]
           item_name == Lower(r.item.v)
           change_amount == r.change.v
       IN  IF ~ValidUpdateRequest(r)
           THEN /\ calls' = Respond(c, 422, "validation", NoBody)
                /\ loop' = loop
           ELSE IF item_name \notin DOMAIN inventory
           THEN /\ calls' = Respond(c, 400, "invalid_item", NoBody)
                /\ loop' = loop
           ELSE IF Rejects(NewStock(inventory[item_name], change_amount))
           THEN /\ calls' = Respond(c, 400, "negative_stock", NoBody)
                /\ loop' = loop
           ELSE /\ calls' = [calls EXCEPT ![c].pc = "write",
                                          ![c].item_name = item_name,
                                          ![c].new_stock = NewStock(inventory[item_name], change_amount)]
                /\ loop' = c
    /\ UNCHANGED <<inventory, procs, apiKey>>

(***************************************************************************)
(* POST /inventory, lines 96-100: the write and the return.                  *)
(***************************************************************************)
update_inventory_write(c) ==
    /\ calls[c].pc = "write"
    /\ inventory' = DictSet(inventory, calls[c].item_name, calls[c].new_stock)
    /\ calls' = Respond(c, 200, "ok", inventory')
    /\ loop' = 0
    /\ UNCHANGED <<procs, apiKey>>

(***************************************************************************)
(* The front end: call_gemini_llm and process_natural_language_query.        *)
(***************************************************************************)
IntentItems   == {NullItem, StrItem(tshirts), StrItem(PantsCap), StrItem(shoes),
                  StrItem(EmptyStr)}
IntentChanges == {NullChange, ArrChange} \cup {IntChange(n) : n \in Deltas}

MkIntent(op, item, change) == [operation |-> op, item |-> item, change |-> change]

\* What json.loads can hand back as a dict with an "operation" key.  A field
\* that is null and a field that is absent read the same through dict.get.
Intents ==
    {MkIntent("GET", i, NullChange) : i \in IntentItems \ {StrItem(shoes)}}
    \cup {MkIntent("POST", NullItem, ch) : ch \in {NullChange, IntChange(5)}}
    \cup {MkIntent("POST", StrItem(tshirts), ch) : ch \in IntentChanges}
    \cup {MkIntent("POST", StrItem(PantsCap), IntChange(-16)),
          MkIntent("POST", StrItem(shoes), IntChange(5)),
          MkIntent("DELETE", StrItem(tshirts), IntChange(5))}

NoIntent == MkIntent("none", NullItem, NullChange)

\* Non-success statuses of the language-model endpoint.
GeminiErrorStatuses == {429, 500}

\* The ways call_gemini_llm fails once the request is sent, and a parsed
\* payload that is no dict or has no "operation" key.
LlmFailures == {"request_error", "http_status", "no_candidates", "bad_json", "not_intent"}

\* The status call_gemini_llm (or, for not_intent, the caller's catch-all)
\* gives each failure; upstream is the status of the model's HTTP response.
GeminiErrorStatus(kind, upstream) ==
    CASE kind = "no_key"        -> 500
      [] kind = "request_error" -> 503
      [] kind = "http_status"   -> upstream
      [] kind = "no_candidates" -> 500
      [] kind = "bad_json"      -> 500
      [] kind = "not_intent"    -> 500

\* `if item:`
Truthy(item) == item.t = "str" /\ item.v # EmptyStr

\* Faulty variants: no check of item and change; any non-write is a read.
DispatchNoCheck(intent) ==
    IF intent.operation = "GET" THEN "GET"
    ELSE IF intent.operation = "POST" THEN "POST"
    ELSE "unsupported"
DispatchElseGet(intent) ==
    IF intent.operation = "POST"
    THEN IF intent.item.t = "null" \/ intent.change.t = "null" THEN "incomplete" ELSE "POST"
    ELSE "GET"
\* The branch process_natural_language_query takes on a parsed intent.
Dispatch(intent) ==
    IF intent.operation = "GET" THEN "GET"
    ELSE IF intent.operation = "POST"
    THEN IF intent.item.t = "null" \/ intent.change.t = "null" THEN "incomplete" ELSE "POST"
    ELSE "unsupported"

\* Faulty variant: an incomplete intent is answered 422.
ProcessErrorStatusUnprocessable(kind) ==
    CASE kind = "incomplete"        -> 422
      [] kind = "unsupported"       -> 400
      [] kind = "store_unreachable" -> 503
\* The status of the HTTPException raised by process_natural_language_query itself.
ProcessErrorStatus(kind) ==
    CASE kind = "incomplete"        -> 400
      [] kind = "unsupported"       -> 400
      [] kind = "store_unreachable" -> 503

\* Faulty variant: the item is lower-cased before the lookup.
ItemCountLower(inventory_state, item) == DictGet0(inventory_state, Lower(item))
\* item_count = inventory_state.get(item, 0)
ItemCount(inventory_state, item) == DictGet0(inventory_state, item)

NoMessage == [kind |-> "none", item |-> EmptyStr, n |-> 0]

\* The message of a successful read.
ReadMessage(intent, inventory_state) ==
    IF Truthy(intent.item)
    THEN [kind |-> "retrieved_item", item |-> intent.item.v,
          n |-> ItemCount(inventory_state, intent.item.v)]
    ELSE [kind |-> "retrieved", item |-> EmptyStr, n |-> 0]

\* The message of a successful write.
WriteMessage(intent) ==
    [kind |-> "updated", item |-> intent.item.v, n |-> intent.change.v]

ProcIds == DOMAIN procs

NewProc ==
    [pc |-> "llm", llm |-> "none", upstream |-> 0, intent |-> NoIntent,
     llm_calls |-> 0, store_calls |-> 0, call |-> 0,
     status |-> 0, detail |-> "none", message |-> NoMessage, inventory_state |-> NoBody]

\* The response of invocation p.
Finish(pr, st, det, msg, state) ==
    [pr EXCEPT !.pc = "done", !.status = st, !.detail = det, !.message = msg,
               !.inventory_state = state]

\* A client posts a query.  Without a credential call_gemini_llm raises before
\* any request is built; with one, the request to the model is sent.
process_query ==
    /\ Len(procs) < MaxProcs
    /\ procs' = Append(procs,
          IF ~apiKey
          THEN Finish([NewProc EXCEPT !.llm = "no_key"],
                      GeminiErrorStatus("no_key", 0), "no_key", NoMessage, NoBody)
          ELSE [NewProc EXCEPT !.llm_calls = 1])
    /\ UNCHANGED <<inventory, calls, loop, apiKey>>

\* The await of the model's answer ends in a failure.
call_gemini_llm_fails(p) ==
    /\ procs[p].pc = "llm"
    /\ \E kind \in LlmFailures :
       \E upstream \in (IF kind = "http_status" THEN GeminiErrorStatuses ELSE {0}) :
          procs' = [procs EXCEPT ![p] =
                       Finish([@ EXCEPT !.llm = kind, !.upstream = upstream],
                              GeminiErrorStatus(kind, upstream), kind, NoMessage, NoBody)]
    /\ UNCHANGED <<inventory, calls, loop, apiKey>>

\* The await of the model's answer ends with a parsed intent; the handler runs
\* on to its next await (the request to the Inventory Store) or to its raise.
\* reach = FALSE: the connection to the store cannot be made.
call_gemini_llm_returns(p) ==
    /\ procs[p].pc = "llm"
    /\ \E intent \in Intents, reach \in BOOLEAN :
          LET branch == Dispatch(intent)
              pr == [procs[p] EXCEPT !.llm = "intent", !.intent = intent]
          IN  IF branch \in {"incomplete", "unsupported"}
              THEN /\ reach
                   /\ procs' = [procs EXCEPT ![p] =
                          Finish(pr, ProcessErrorStatus(branch), branch, NoMessage, NoBody)]
                   /\ calls' = calls
              ELSE IF ~reach
              THEN /\ procs' = [procs EXCEPT ![p] =
                          Finish([pr EXCEPT !.store_calls = @ + 1],
                                 ProcessErrorStatus("store_unreachable"),
                                 "store_unreachable", NoMessage, NoBody)]
                   /\ calls' = calls
              ELSE /\ procs' = [procs EXCEPT ![p] =
                          [pr EXCEPT !.pc = "store", !.store_calls = @ + 1,
                                     !.call = Len(calls) + 1]]
                   /\ calls' = Append(calls,
                          IF branch = "GET"
                          THEN NewCall("GET", NullItem, NullChange, p)
                          ELSE NewCall("POST", intent.item, intent.change, p))
    /\ UNCHANGED <<inventory, loop, apiKey>>

\* The store's response arrives: raise_for_status, then the message.
store_response(p) ==
    /\ procs[p].pc = "store"
    /\ calls[procs[p].call].pc = "done"
    /\ LET r == calls[procs[p].call]
           pr == procs[p]
       IN  procs' = [procs EXCEPT ![p] =
              IF r.status # 200
              THEN Finish(pr, r.status, "store_error", NoMessage, NoBody)
              ELSE IF r.method = "GET"
              THEN Finish(pr, 200, "ok", ReadMessage(pr.intent, r.body), r.body)
              ELSE Finish(pr, 200, "ok", WriteMessage(pr.intent), r.body)]
    /\ UNCHANGED <<inventory, calls, loop, apiKey>>

\* The store's response does not arrive (an httpx.RequestError while waiting,
\* a read timeout for one); the request stays with the store.
store_response_lost(p) ==
    /\ procs[p].pc = "store"
    /\ procs' = [procs EXCEPT ![p] =
          Finish(@, ProcessErrorStatus("store_unreachable"), "store_unreachable",
                 NoMessage, NoBody)]
    /\ UNCHANGED <<inventory, calls, loop, apiKey>>

NextMCP ==
    \/ process_query
    \/ \E p \in ProcIds : call_gemini_llm_fails(p)
    \/ \E p \in ProcIds : call_gemini_llm_returns(p)
    \/ \E p \in ProcIds : store_response(p)
    \/ \E p \in ProcIds : store_response_lost(p)
    \/ \E c \in CallIds : get_inventory(c)
    \/ \E c \in CallIds : update_inventory_check(c)
    \/ \E c \in CallIds : update_inventory_write(c)

SpecMCP == Init /\ [][NextMCP]_vars

NextStore ==
    \/ ClientGet
    \/ ClientPost
    \/ \E c \in CallIds : get_inventory(c)
    \/ \E c \in CallIds : update_inventory_check(c)
    \/ \E c \in CallIds : update_inventory_write(c)

SpecStore == Init /\ [][NextStore]_vars

(***************************************************************************)
(* Vocabulary of the properties.                                             *)
(***************************************************************************)
KnownItems == {tshirts, pants}

FoldCase(x) == IF x \in 65..90 THEN x + 32 ELSE x
SameIgnoringCase(a, b) ==
    /\ Len(a) = Len(b)
    /\ \A i \in 1..Len(a) : FoldCase(a[i]) = FoldCase(b[i])
IsKnown(name) == \E k \in KnownItems : SameIgnoringCase(name, k)

RECURSIVE SumChanges(_)
SumChanges(S) ==
    IF S = {} THEN 0
    ELSE LET c == CHOOSE x \in S : TRUE
         IN  calls[c].change.v + SumChanges(S \ {c})

\* The updates on item k that the store has answered with 200.
AcceptedOn(k) ==
    {c \in CallIds : /\ calls[c].pc = "done"
                     /\ calls[c].method = "POST"
                     /\ calls[c].status = 200
                     /\ SameIgnoringCase(calls[c].item.v, k)}

\* Seed value plus the accepted deltas, per item.
Ledger == [k \in KnownItems |-> SeedInventory[k] + SumChanges(AcceptedOn(k))]

\* Call c leaves "pending" in this step: the store starts (and, for a read or
\* a refusal, also ends) its handler.
Starts(c) == calls[c].pc = "pending" /\ calls'[c].pc # "pending"
\* Call c is answered in this step.
Answered(c) == calls[c].pc # "done" /\ calls'[c].pc = "done"
\* A well-typed Update(item, delta).
IsUpdate(c) ==
    calls[c].method = "POST" /\ calls[c].item.t = "str" /\ calls[c].change.t = "int"

\* C1: from the seed mapping, after any sequence of Update calls (accepted or
\* rejected, any item, any signed delta) every stored count is >= 0.
C1_CountsNeverNegative == \A k \in DOMAIN inventory : inventory[k] >= 0

C1_Witness ==
    /\ \E c \in CallIds : calls[c].detail = "negative_stock"
    /\ \E c \in CallIds : /\ IsUpdate(c) /\ calls[c].status = 200
                          /\ calls[c].change.v < 0
    /\ \E k \in DOMAIN inventory : inventory[k] < SeedInventory[k]

\* C2: an Update on a known item with count + delta < 0 is answered 400
\* NegativeStockRejected, and the whole mapping is as it was before the call.
C2_NegativeStockRejected ==
    [][\A c \in CallIds :
          (/\ Starts(c) /\ IsUpdate(c) /\ IsKnown(calls[c].item.v)
           /\ \E k \in KnownItems : /\ SameIgnoringCase(calls[c].item.v, k)
                                    /\ inventory[k] + calls[c].change.v < 0)
          => /\ calls'[c].pc = "done"
             /\ calls'[c].status = 400
             /\ calls'[c].detail = "negative_stock"
             /\ inventory' = inventory]_vars

C2_Witness ==
    \E c \in CallIds :
        /\ calls[c].detail = "negative_stock" /\ calls[c].status = 400
        /\ inventory # SeedInventory

\* C3: an Update is answered 400 InvalidItem exactly when its identifier,
\* compared without regard to case, is not tshirts or pants; that answer
\* leaves the mapping as it was, and the keys are {tshirts, pants} always.
C3_InvalidItemExactlyUnknown ==
    /\ [](DOMAIN inventory = KnownItems)
    /\ [][\A c \in CallIds :
             (Starts(c) /\ IsUpdate(c))
             => /\ (calls'[c].detail = "invalid_item") <=> ~IsKnown(calls[c].item.v)
                /\ (calls'[c].detail = "invalid_item")
                   => /\ calls'[c].pc = "done" /\ calls'[c].status = 400
                      /\ inventory' = inventory]_vars

C3_Witness ==
    /\ \E c \in CallIds : calls[c].item.v = shoes /\ calls[c].detail = "invalid_item"
    /\ \E c \in CallIds : calls[c].item.v = PantsCap /\ calls[c].status = 200

\* C4: the mapping, and so every Read, is the seed plus the deltas of the
\* accepted Updates; a refused Update adds nothing; an accepted Update changes
\* its own item by exactly delta and returns the full updated mapping.
C4_ReadIsSeedPlusAccepted ==
    /\ [](inventory = Ledger)
    /\ [][\A c \in CallIds :
             /\ (Answered(c) /\ calls[c].method = "GET")
                => calls'[c].status = 200 /\ calls'[c].body = Ledger
             /\ (Answered(c) /\ calls'[c].status # 200) => inventory' = inventory
             /\ (Answered(c) /\ calls[c].method = "POST" /\ calls'[c].status = 200)
                => \E k \in KnownItems :
                      /\ SameIgnoringCase(calls[c].item.v, k)
                      /\ inventory' = [inventory EXCEPT ![k] = @ + calls[c].change.v]
                      /\ calls'[c].body = inventory']_vars

C4_Witness ==
    /\ \E c \in CallIds : /\ calls[c].method = "GET" /\ calls[c].pc = "done"
                          /\ calls[c].body # SeedInventory
                          /\ calls[c].seen.refused > 0
    /\ \E c \in CallIds : IsUpdate(c) /\ calls[c].status = 200

\* C5 as the specification states it: Update calls are not serialized, so
\* whenever one call stands between its read of the count and its write,
\* another pending Update can run its own read.
C5_UpdatesNotSerialized ==
    \A c, d \in CallIds :
        (calls[c].pc = "write" /\ calls[d].pc = "pending" /\ calls[d].method = "POST")
        => ENABLED update_inventory_check(d)

\* C5 as the code has it: the handler body has no suspension point, so no
\* other call runs between a call's read and its write: the count it read is
\* still the stored count when it writes, no accepted update is lost and no
\* count is negative.
C5_UpdatesSerialized ==
    /\ \A c \in CallIds :
          calls[c].pc = "write"
          => /\ loop = c
             /\ calls[c].new_stock = inventory[calls[c].item_name] + calls[c].change.v
             /\ \A d \in CallIds : calls[d].pc = "write" => d = c
    /\ inventory = Ledger
    /\ \A k \in KnownItems : inventory[k] >= 0

C5_Witness ==
    \E c, d \in CallIds :
        /\ calls[c].pc = "write"
        /\ calls[d].pc = "pending" /\ IsUpdate(d)
        /\ SameIgnoringCase(calls[d].item.v, calls[c].item.v)

\* C9: two Reads with no accepted Update between them return the same
\* mapping, whatever Reads and refused Updates lie between them.
C9_ReadsAgreeBetweenUpdates ==
    \A g, h \in CallIds :
        (/\ calls[g].method = "GET" /\ calls[g].pc = "done"
         /\ calls[h].method = "GET" /\ calls[h].pc = "done"
         /\ calls[g].seen.accepted = calls[h].seen.accepted)
        => calls[g].body = calls[h].body

C9_Witness ==
    \E g, h \in CallIds :
        /\ calls[g].method = "GET" /\ calls[g].pc = "done"
        /\ calls[h].method = "GET" /\ calls[h].pc = "done"
        /\ calls[g].seen.accepted = calls[h].seen.accepted
        /\ calls[g].seen.refused < calls[h].seen.refused

\* Invocation p gets its response in this step.
Finishes(p) == procs[p].pc # "done" /\ procs'[p].pc = "done"
\* The store calls made on behalf of invocation p.
CallsOf(p) == {c \in CallIds : calls[c].origin = p}
IsDone(p) == procs[p].pc = "done"

\* C6: a write intent that lacks the item or lacks the delta is answered 400
\* IncompleteIntent and no call reaches the Inventory Store: the step that
\* answers it leaves the store's requests and the mapping as they were.
C6_IncompleteIntentMakesNoCall ==
    /\ [](\A p \in ProcIds :
            (/\ procs[p].intent.operation = "POST"
             /\ (procs[p].intent.item.t = "null" \/ procs[p].intent.change.t = "null"))
            => /\ IsDone(p)
               /\ procs[p].status = 400 /\ procs[p].detail = "incomplete"
               /\ procs[p].store_calls = 0 /\ CallsOf(p) = {})
    /\ [][\A p \in ProcIds :
             (/\ Finishes(p)
              /\ procs'[p].intent.operation = "POST"
              /\ (procs'[p].intent.item.t = "null" \/ procs'[p].intent.change.t = "null"))
             => calls' = calls /\ inventory' = inventory]_vars

C6_Witness ==
    /\ \E p \in ProcIds : /\ procs[p].intent.operation = "POST"
                          /\ procs[p].intent.item.t = "null"
                          /\ procs[p].intent.change.t = "int"
                          /\ procs[p].status = 400
    /\ \E p \in ProcIds : /\ procs[p].intent.operation = "POST"
                          /\ procs[p].intent.item.t = "str"
                          /\ procs[p].intent.change.t = "null"
                          /\ procs[p].status = 400

\* C7 as the specification states it: every response of POST /process_query
\* carries 200, 400, 500 or 503 (a propagated Inventory Store 400 being 400).
C7_OnlyListedStatuses ==
    \A p \in ProcIds : IsDone(p) => procs[p].status \in {200, 400, 500, 503}

\* C7 as the code has it: 200 on success; 400 for an incomplete or unsupported
\* intent; 500 for a missing credential, a malformed model response or an
\* internal error; 503 when the model or the store cannot be reached; the
\* model's own status when its HTTP response is a non-success one; the
\* store's own status (400 or 422) when the store refuses the request.
C7_StatusByOutcome ==
    \A p \in ProcIds :
        IsDone(p) =>
        LET st == procs[p].status
            det == procs[p].detail
        IN  \/ /\ st = 200 /\ det = "ok"
               /\ procs[p].call \in CallIds /\ calls[procs[p].call].status = 200
            \/ st = 400 /\ det \in {"incomplete", "unsupported"}
            \/ st = 500 /\ det \in {"no_key", "no_candidates", "bad_json", "not_intent"}
            \/ st = 503 /\ det \in {"request_error", "store_unreachable"}
            \/ /\ det = "http_status" /\ procs[p].llm = "http_status"
               /\ st = procs[p].upstream /\ st >= 400
            \/ /\ det = "store_error" /\ procs[p].call \in CallIds
               /\ st = calls[procs[p].call].status /\ st \in {400, 422}

C7_Witness ==
    /\ \E p \in ProcIds : IsDone(p) /\ procs[p].status = 429
    /\ \E p \in ProcIds : IsDone(p) /\ procs[p].status = 422

\* C8: a read intent calls the store's Read and never changes the mapping;
\* its response carries the full mapping the store returned; when the intent
\* names an item the message cites that item's count from that mapping, and
\* 0 for an item that is no key of it.
C8_ReadIntent ==
    /\ [](\A p \in ProcIds :
            procs[p].intent.operation = "GET"
            => /\ \A c \in CallsOf(p) : calls[c].method = "GET"
               /\ (IsDone(p) /\ procs[p].status = 200)
                  => LET got == calls[procs[p].call].body
                         item == procs[p].intent.item
                     IN  /\ procs[p].inventory_state = got
                         /\ DOMAIN got = KnownItems
                         /\ IF item.t = "str" /\ item.v # EmptyStr
                            THEN /\ procs[p].message.kind = "retrieved_item"
                                 /\ procs[p].message.item = item.v
                                 /\ procs[p].message.n =
                                       (IF item.v \in KnownItems THEN got[item.v] ELSE 0)
                            ELSE procs[p].message.kind = "retrieved")
    /\ [][/\ \A c \in CallIds :
               (calls[c].method = "GET" /\ calls'[c] # calls[c]) => inventory' = inventory
          /\ \A p \in ProcIds :
               (procs'[p] # procs[p] /\ procs'[p].intent.operation = "GET")
               => inventory' = inventory]_vars

C8_Witness ==
    \E p \in ProcIds : /\ IsDone(p) /\ procs[p].status = 200
                          /\ procs[p].intent.operation = "GET"
                          /\ procs[p].intent.item.v = PantsCap
                          /\ procs[p].message.n = 0
                          /\ procs[p].inventory_state # SeedInventory

\* C10: an invocation calls the model at most once and the store at most
\* once; the store is called only after the model yielded a read intent or a
\* write intent with item and delta; a failed interpretation or an operation
\* that is neither read nor write makes no store call and leaves the mapping.
C10_OneCallEach ==
    /\ [](\A p \in ProcIds :
            /\ procs[p].llm_calls <= 1 /\ procs[p].store_calls <= 1
            /\ Cardinality(CallsOf(p)) <= procs[p].store_calls
            /\ (procs[p].store_calls = 1 \/ CallsOf(p) # {})
               => /\ procs[p].llm_calls = 1 /\ procs[p].llm = "intent"
                  /\ \/ procs[p].intent.operation = "GET"
                     \/ /\ procs[p].intent.operation = "POST"
                        /\ procs[p].intent.item.t # "null"
                        /\ procs[p].intent.change.t # "null"
            /\ (procs[p].pc # "llm" /\ procs[p].llm # "intent")
               => procs[p].store_calls = 0 /\ CallsOf(p) = {}
            /\ (procs[p].llm = "intent" /\ procs[p].intent.operation \notin {"GET", "POST"})
               => procs[p].store_calls = 0 /\ CallsOf(p) = {})
    /\ [][\A p \in ProcIds :
             (/\ Finishes(p)
              /\ \/ procs'[p].llm # "intent"
                 \/ procs'[p].intent.operation \notin {"GET", "POST"})
             => calls' = calls /\ inventory' = inventory]_vars

C10_Witness ==
    /\ \E p \in ProcIds : /\ IsDone(p) /\ procs[p].intent.operation = "DELETE"
                          /\ procs[p].store_calls = 0
    /\ \E p \in ProcIds : /\ IsDone(p) /\ procs[p].store_calls = 1
                          /\ procs[p].llm_calls = 1 /\ CallsOf(p) # {}

====
